---- MODULE Spec2Model ----
(***************************************************************************)
(* Model of package parse (src/parse/event.go): decoding one line of       *)
(* `go test -json` output into an Event, rewriting nested-test events, and *)
(* the classification predicates on an Event.                              *)
(*                                                                         *)
(* A Go string is modelled as a sequence of one-character strings, so that *)
(* prefix, suffix, substring, split and the coverage pattern are computed  *)
(* character by character as the code computes them.                       *)
(***************************************************************************)
EXTENDS Integers, Sequences, FiniteSets, TLC

VARIABLES
    data,     \* data[c]: the line handed to NewEvent by caller c
    e,        \* e[c]: the *Event caller c holds (Nil before/without a decode)
    err,      \* err[c]: whether NewEvent returned a non-nil error
    pc,       \* pc[c]: "start" | "decoded" | "failed"
    calls,    \* calls[c]: ProcessNestedTest calls made on e[c]
    ret,      \* ret[c]: the last predicate result caller c obtained
    before,   \* before[c]: what became of caller c's previous line
    updates   \* the package-level marker table read by Discard

vars == <<data, e, err, pc, calls, ret, before, updates>>

\* Most ProcessNestedTest calls a caller makes on one Event.
MaxCalls == 2

-----------------------------------------------------------------------------
(* package strings *)

HasPrefix(s, prefix) ==
    Len(s) >= Len(prefix) /\ SubSeq(s, 1, Len(prefix)) = prefix

HasSuffix(s, suffix) ==
    Len(s) >= Len(suffix) /\ SubSeq(s, Len(s) - Len(suffix) + 1, Len(s)) = suffix

\* strings.Index: the 1-based index of the first instance of substr, 0 if none.
Index(s, substr) ==
    LET at == {i \in 1..(Len(s) - Len(substr) + 1) :
                   SubSeq(s, i, i + Len(substr) - 1) = substr}
    IN  IF at = {} THEN 0 ELSE CHOOSE i \in at : \A j \in at : i <= j

Contains(s, substr) == Index(s, substr) # 0

\* strings.Replace(s, old, new, -1) for a non-empty old.
RECURSIVE Replace(_, _, _)
Replace(s, old, new) ==
    IF Len(s) < Len(old) THEN s
    ELSE IF HasPrefix(s, old)
         THEN new \o Replace(SubSeq(s, Len(old) + 1, Len(s)), old, new)
         ELSE <<Head(s)>> \o Replace(Tail(s), old, new)

\* strings.Split(s, sep) for a non-empty sep: always at least one element.
RECURSIVE Split(_, _)
Split(s, sep) ==
    LET i == Index(s, sep)
    IN  IF i = 0 THEN <<s>>
        ELSE <<SubSeq(s, 1, i - 1)>> \o Split(SubSeq(s, i + Len(sep), Len(s)), sep)

\* strings.TrimRight(s, cutset): cutset given as a set of characters.
RECURSIVE TrimRight(_, _)
TrimRight(s, cutset) ==
    IF s # <<>> /\ s[Len(s)] \in cutset
    THEN TrimRight(SubSeq(s, 1, Len(s) - 1), cutset)
    ELSE s

-----------------------------------------------------------------------------
(* package regexp, package strconv *)

Digits == {"0", "1", "2", "3", "4", "5", "6", "7", "8", "9"}

DigitVal(ch) ==
    CASE ch = "0" -> 0 [] ch = "1" -> 1 [] ch = "2" -> 2 [] ch = "3" -> 3
      [] ch = "4" -> 4 [] ch = "5" -> 5 [] ch = "6" -> 6 [] ch = "7" -> 7
      [] ch = "8" -> 8 [] ch = "9" -> 9

IsDigits(s) == \A i \in 1..Len(s) : s[i] \in Digits

RECURSIVE Atoi(_)
Atoi(s) == IF s = <<>> THEN 0
           ELSE 10 * Atoi(SubSeq(s, 1, Len(s) - 1)) + DigitVal(s[Len(s)])

\* The lengths k of the integer part with which `[0-9]{1,3}\.[0-9]{1}\%`
\* matches s at index i.
ReMatchAt(s, i) ==
    {k \in 1..3 :
        /\ i + k + 2 <= Len(s)
        /\ IsDigits(SubSeq(s, i, i + k - 1))
        /\ s[i + k] = "."
        /\ s[i + k + 1] \in Digits
        /\ s[i + k + 2] = "%"}

\* re.FindString(s): the text of the leftmost match (at one index the greedy
\* {1,3} takes the longest integer part), "" if there is none.
FindString(s) ==
    LET at == {i \in 1..Len(s) : ReMatchAt(s, i) # {}}
    IN  IF at = {} THEN <<>>
        ELSE LET i == CHOOSE x \in at : \A y \in at : x <= y
                 k == CHOOSE x \in ReMatchAt(s, i) : \A y \in ReMatchAt(s, i) : x >= y
             IN  SubSeq(s, i, i + k + 2)

\* strconv.ParseFloat(s, 64) on the decimal syntax digits[.digit]; the float64 is
\* represented exactly as a count of tenths (28.8 is 288). Any other text,
\* the empty string included, is a syntax error with value 0. (Exponents,
\* signs, hexadecimal and longer fractions cannot come out of the pattern.)
ParseFloat(s) ==
    LET dot == Index(s, <<".">>)
        ip  == IF dot = 0 THEN s ELSE SubSeq(s, 1, dot - 1)
        fp  == IF dot = 0 THEN <<>> ELSE SubSeq(s, dot + 1, Len(s))
    IN  IF /\ IsDigits(ip) /\ IsDigits(fp)
           /\ Len(fp) <= 1 /\ Len(ip) + Len(fp) >= 1
        THEN [f |-> 10 * Atoi(ip) + Atoi(fp), err |-> FALSE]
        ELSE [f |-> 0, err |-> TRUE]

-----------------------------------------------------------------------------
(* type Action, type Event *)

ActionRun    == <<"r","u","n">>
ActionPause  == <<"p","a","u","s","e">>
ActionCont   == <<"c","o","n","t">>
ActionPass   == <<"p","a","s","s">>
ActionBench  == <<"b","e","n","c","h">>
ActionFail   == <<"f","a","i","l">>
ActionOutput == <<"o","u","t","p","u","t">>
ActionSkip   == <<"s","k","i","p">>

\* The zero time.Time, and a decoded time (kept as its RFC 3339 text).
ZeroTime == <<>>

\* var e Event: every field at its zero value. Elapsed is in milliseconds.
ZeroEvent ==
    [Action |-> <<>>, Output |-> <<>>, Time |-> ZeroTime,
     Package |-> <<>>, Test |-> <<>>, Elapsed |-> 0]

\* The nil *Event.
Nil == [nil |-> TRUE]

\* updates: the three run-state markers.
UpdatesTable == << <<"=","=","="," ","R","U","N"," "," "," ">>, <<"=","=","="," ","P","A","U","S","E"," ">>, <<"=","=","="," ","C","O","N","T"," "," ">> >>

-----------------------------------------------------------------------------
(* package encoding/json, as NewEvent uses it.  A line is abstracted to its  *)
(* JSON structure: whether it is well-formed, what its top-level value is, *)
(* and for an object the JSON value under each key the Event has.          *)

Absent    == [t |-> "absent", v |-> <<>>]
JNull     == [t |-> "null",   v |-> <<>>]
JTrue     == [t |-> "bool",   v |-> <<>>]
JStr(s)   == [t |-> "string", v |-> s]
JNum(n)   == [t |-> "number", v |-> n]

\* time.Time.UnmarshalJSON on a JSON string: RFC 3339, here its
\* "YYYY-MM-DDTHH:MM:SSZ" form.
IsRFC3339(s) ==
    /\ Len(s) = 20
    /\ \A i \in {1, 2, 3, 4, 6, 7, 9, 10, 12, 13, 15, 16, 18, 19} : s[i] \in Digits
    /\ s[5] = "-" /\ s[8] = "-" /\ s[11] = "T"
    /\ s[14] = ":" /\ s[17] = ":" /\ s[20] = "Z"

\* Decoding one JSON value into a field holding old: an absent key and a JSON
\* null leave the field alone, a value of the wrong type is an error.
DecodeString(jv, old) ==
    CASE jv.t \in {"absent", "null"} -> [v |-> old, err |-> FALSE]
      [] jv.t = "string"             -> [v |-> jv.v, err |-> FALSE]
      [] OTHER                       -> [v |-> old, err |-> TRUE]

DecodeFloat(jv, old) ==
    CASE jv.t \in {"absent", "null"} -> [v |-> old, err |-> FALSE]
      [] jv.t = "number"             -> [v |-> jv.v, err |-> FALSE]
      [] OTHER                       -> [v |-> old, err |-> TRUE]

DecodeTime(jv, old) ==
    CASE jv.t \in {"absent", "null"}        -> [v |-> old, err |-> FALSE]
      [] jv.t = "string" /\ IsRFC3339(jv.v) -> [v |-> jv.v, err |-> FALSE]
      [] OTHER                              -> [v |-> old, err |-> TRUE]

\* json.Unmarshal(data, &into). Ill-formed text is a syntax error and into is
\* untouched; a top-level null is a no-op; any other non-object is a type
\* error; in an object every field of the right type is stored and the first
\* type error is reported after the whole object was decoded.
Unmarshal(d, into) ==
    CASE d.kind = "garbage" -> [v |-> into, err |-> TRUE]
      [] d.kind = "null"    -> [v |-> into, err |-> FALSE]
      [] d.kind = "array"   -> [v |-> into, err |-> TRUE]
      [] d.kind = "object"  ->
            LET a  == DecodeString(d.Action, into.Action)
                o  == DecodeString(d.Output, into.Output)
                t  == DecodeTime(d.Time, into.Time)
                p  == DecodeString(d.Package, into.Package)
                n  == DecodeString(d.Test, into.Test)
                el == DecodeFloat(d.Elapsed, into.Elapsed)
            IN  [v   |-> [Action |-> a.v, Output |-> o.v, Time |-> t.v,
                          Package |-> p.v, Test |-> n.v, Elapsed |-> el.v],
                 err |-> a.err \/ o.err \/ t.err \/ p.err \/ n.err \/ el.err]

-----------------------------------------------------------------------------
(* event.go *)

\* Mutant of NewEvent: the error is returned together with the half-filled &e.
NewEventPartial(d) ==
    LET r == Unmarshal(d, ZeroEvent)
    IN  [ev |-> r.v, err |-> r.err]

\* NewEvent(data): (nil, err) when Unmarshal fails, (&e, nil) otherwise.
NewEvent(d) ==
    LET r == Unmarshal(d, ZeroEvent)
    IN  IF r.err THEN [ev |-> Nil, err |-> TRUE]
        ELSE [ev |-> r.v, err |-> FALSE]

NestedTest(ev) ==
    ev.Test # <<>> /\ (HasPrefix(ev.Output, <<"P","A","S","S">>) \/ HasPrefix(ev.Output, <<"F","A","I","L">>))

\* Mutant of ProcessNestedTest: the tabs are not replaced before the split.
ProcessNestedTestNoTabs(ev) ==
    IF NestedTest(ev)
    THEN LET act   == IF HasPrefix(ev.Output, <<"P","A","S","S">>) THEN ActionPass ELSE ActionFail
             parts == Split(ev.Output, <<" ">>)
         IN  [ev EXCEPT !.Action = act,
                        !.Test = IF Len(parts) > 2 THEN parts[3] ELSE @]
    ELSE ev

\* Mutant of ProcessNestedTest: the nested name is appended to the parent's.
ProcessNestedTestQualified(ev) ==
    IF NestedTest(ev)
    THEN LET act   == IF HasPrefix(ev.Output, <<"P","A","S","S">>) THEN ActionPass ELSE ActionFail
             parts == Split(Replace(ev.Output, <<"\t">>, <<" ">>), <<" ">>)
         IN  [ev EXCEPT !.Action = act,
                        !.Test = IF Len(parts) > 2 THEN @ \o <<"/">> \o parts[3] ELSE @]
    ELSE ev

\* Mutant of ProcessNestedTest: the NestedTest guard is missing.
ProcessNestedTestUnguarded(ev) ==
    LET act   == IF HasPrefix(ev.Output, <<"P","A","S","S">>) THEN ActionPass
                 ELSE IF HasPrefix(ev.Output, <<"F","A","I","L">>) THEN ActionFail
                 ELSE ev.Action
        parts == Split(Replace(ev.Output, <<"\t">>, <<" ">>), <<" ">>)
    IN  [ev EXCEPT !.Action = act,
                   !.Test = IF Len(parts) > 2 THEN parts[3] ELSE @]

\* ProcessNestedTest: the Event after the call.
ProcessNestedTest(ev) ==
    IF NestedTest(ev)
    THEN LET act   == IF HasPrefix(ev.Output, <<"P","A","S","S">>) THEN ActionPass
                      ELSE IF HasPrefix(ev.Output, <<"F","A","I","L">>) THEN ActionFail
                      ELSE ev.Action
             parts == Split(Replace(ev.Output, <<"\t">>, <<" ">>), <<" ">>)
         IN  [ev EXCEPT !.Action = act,
                        !.Test = IF Len(parts) > 2 THEN parts[3] ELSE @]
    ELSE ev

\* Mutant of Discard: a marker counts only on an output action.
DiscardOutputOnly(ev) ==
    /\ ev.Action = ActionOutput
    /\ \/ \E i \in 1..Len(updates) : HasPrefix(ev.Output, updates[i])
       \/ ev.Test = <<>>

Discard(ev) ==
    \/ \E i \in 1..Len(updates) : HasPrefix(ev.Output, updates[i])
    \/ ev.Action = ActionOutput /\ ev.Test = <<>>

\* Mutant of LastLine: the Output is not looked at.
LastLineAnyOutput(ev) ==
    ev.Test = <<>> /\ (ev.Action = ActionPass \/ ev.Action = ActionFail)

LastLine(ev) ==
    ev.Test = <<>> /\ ev.Output = <<>> /\ (ev.Action = ActionPass \/ ev.Action = ActionFail)

NoTestFiles(ev) ==
    HasPrefix(ev.Output, <<"?"," "," "," ","\t">>) /\ HasSuffix(ev.Output, <<"[","n","o"," ","t","e","s","t"," ","f","i","l","e","s","]","\n">>)

NoTestsToRun(ev) ==
    HasPrefix(ev.Output, <<"o","k"," "," ","\t">>) /\ HasSuffix(ev.Output, <<"[","n","o"," ","t","e","s","t","s"," ","t","o"," ","r","u","n","]","\n">>)

NoTestsWarn(ev) ==
    ev.Test # <<>> /\ ev.Output = <<"t","e","s","t","i","n","g",":"," ","w","a","r","n","i","n","g",":"," ","n","o"," ","t","e","s","t","s"," ","t","o"," ","r","u","n","\n">>

IsCached(ev) ==
    HasPrefix(ev.Output, <<"o","k"," "," ","\t">>) /\ Contains(ev.Output, <<"\t","(","c","a","c","h","e","d",")">>)

\* Mutant of Cover: the suffix is not required.
CoverAnySuffix(ev) ==
    IF Contains(ev.Output, <<"c","o","v","e","r","a","g","e",":">>)
    THEN LET s == FindString(ev.Output)
             r == ParseFloat(TrimRight(s, {"%"}))
         IN  IF r.err THEN [f |-> r.f, ok |-> FALSE]
             ELSE [f |-> r.f, ok |-> TRUE]
    ELSE [f |-> 0, ok |-> FALSE]

\* Cover: [f, ok], f in tenths of a percent point.
Cover(ev) ==
    IF Contains(ev.Output, <<"c","o","v","e","r","a","g","e",":">>) /\ HasSuffix(ev.Output, <<"o","f"," ","s","t","a","t","e","m","e","n","t","s","\n">>)
    THEN LET s == FindString(ev.Output)
             r == ParseFloat(TrimRight(s, {"%"}))
         IN  IF r.err THEN [f |-> r.f, ok |-> FALSE]
             ELSE [f |-> r.f, ok |-> TRUE]
    ELSE [f |-> 0, ok |-> FALSE]

IsRace(ev) == HasPrefix(ev.Output, <<"W","A","R","N","I","N","G",":"," ","D","A","T","A"," ","R","A","C","E">>)

\* Mutant of IsPanic: "as expected" suppresses the prefix form as well.
IsPanicSuppressed(ev) ==
    /\ \/ HasPrefix(ev.Output, <<"p","a","n","i","c",":"," ">>)
       \/ Contains(ev.Output, <<"r","u","n","t","i","m","e"," ","e","r","r","o","r",":">>)
    /\ ~Contains(ev.Output, <<"a","s"," ","e","x","p","e","c","t","e","d">>)

IsPanic(ev) ==
    \/ HasPrefix(ev.Output, <<"p","a","n","i","c",":"," ">>)
    \/ Contains(ev.Output, <<"r","u","n","t","i","m","e"," ","e","r","r","o","r",":">>) /\ ~Contains(ev.Output, <<"a","s"," ","e","x","p","e","c","t","e","d">>)

-----------------------------------------------------------------------------
(* The lines the callers hand to NewEvent *)

TestFoo      == <<"T","e","s","t","F","o","o">>
SuiteTestBar == <<"S","u","i","t","e",".","T","e","s","t","B","a","r">>
NestedLine   == <<"P","A","S","S",":"," ","s","u","b","_","t","e","s","t",".","g","o",":","1","0",":"," ","S","u","i","t","e",".","T","e","s","t","B","a","r","\t","0",".","0","0","1","s","\n">>
CoverLine    == <<"o","k"," "," ","\t","p","k","g","\t","0",".","0","2","7","s","\t","c","o","v","e","r","a","g","e",":"," ","2","8",".","8","%"," ","o","f"," ","s","t","a","t","e","m","e","n","t","s","\n">>
NoFilesLine  == <<"?"," "," "," ","\t","p","\t","[","n","o"," ","t","e","s","t"," ","f","i","l","e","s","]","\n">>
AsExpected   == <<"t","i","m","e","_","t","e","s","t",".","g","o",":","1",":"," ","p","a","n","i","c"," ","i","n"," ","g","o","r","o","u","t","i","n","e"," ","7",","," ","a","s"," ","e","x","p","e","c","t","e","d",","," ","w","i","t","h"," ","\"","r","u","n","t","i","m","e"," ","e","r","r","o","r",":"," ","r","a","c","y"," ","u","s","e"," ","o","f"," ","t","i","m","e","r","s","\"">>
TimeText     == <<"2","0","1","8","-","1","0","-","1","4","T","1","1",":","4","5",":","0","3","Z">>

MarkerOutputs ==
    {h \o t : h \in {<<>>, <<"=","=","="," ","R","U","N"," "," "," ">>, <<"=","=","="," ","P","A","U","S","E"," ">>, <<"=","=","="," ","C","O","N","T"," "," ">>,
                     <<"=","=","="," ","R","U","N"," "," ">>, <<"=","=","="," ","C","O","N","T"," ">>, <<" ","=","=","="," ","R","U","N"," "," "," ">>, <<"=","=","="," ","r","u","n"," "," "," ">>},
              t \in {<<>>, <<"T","e","s","t","F","o","o","\n">>}}

NestedOutputs ==
    {h \o t : h \in {<<"P","A","S","S">>, <<"F","A","I","L">>, <<"P","A","S">>, <<"p","a","s","s">>, <<" ","F","A","I","L">>, <<"P","A","S","S","F","A","I","L">>},
              t \in {<<>>, <<":"," ","s","u","b","_","t","e","s","t",".","g","o",":","1","0",":"," ","S","u","i","t","e",".","T","e","s","t","B","a","r","\t","0",".","0","0","1","s","\n">>, <<":"," ","a">>,
                     <<":","\t","a","\t","S","u","i","t","e",".","T","e","s","t","B","a","z">>, <<":"," ","a"," "," ","b">>, <<" "," ">>, <<" ","a"," ","b"," ","c">>, <<"\n">>}}

PanicOutputs ==
    {p \o m \o s : p \in {<<>>, <<"p","a","n","i","c",":"," ">>, <<"p","a","n","i","c",":">>, <<"x"," ","p","a","n","i","c",":"," ">>},
                   m \in {<<>>, <<"r","u","n","t","i","m","e"," ","e","r","r","o","r",":"," ","i","n","d","e","x"," ","o","u","t"," ","o","f"," ","r","a","n","g","e">>,
                          <<"r","u","n","t","i","m","e"," ","e","r","r","o","r">>, <<"x">>},
                   s \in {<<>>, <<","," ","a","s"," ","e","x","p","e","c","t","e","d">>, <<"a","s"," ","e","x","p","e","c","t","e">>}}

CoverOutputs ==
    {p \o c \o n \o s :
        p \in {<<>>, <<"o","k"," "," ","\t","p","k","g","\t","(","c","a","c","h","e","d",")","\t">>},
        c \in {<<>>, <<"c","o","v","e","r","a","g","e",":"," ">>, <<"c","o","v","e","r","a","g","e"," ">>},
        n \in {<<>>, <<"2","8",".","8","%">>, <<"1","0","0",".","0","%">>, <<"1","2","3","4",".","5","%">>, <<"2","8","%">>, <<".","5","%">>,
               <<"5",".","5">>, <<"1",".","2","%"," ","3",".","4","%">>, <<"0",".","0","%">>, <<"7",".","2","5","%">>},
        s \in {<<" ","o","f"," ","s","t","a","t","e","m","e","n","t","s","\n">>, <<" ","o","f"," ","s","t","a","t","e","m","e","n","t","s">>, <<"\n">>}}

OtherOutputs ==
    {NestedLine, CoverLine, NoFilesLine, AsExpected,
     <<"o","k"," "," ","\t","p","\t","4",".","5","4","3","s"," ","[","n","o"," ","t","e","s","t","s"," ","t","o"," ","r","u","n","]","\n">>,
     <<"t","e","s","t","i","n","g",":"," ","w","a","r","n","i","n","g",":"," ","n","o"," ","t","e","s","t","s"," ","t","o"," ","r","u","n","\n">>,
     <<"o","k"," "," ","\t","p","k","g","\t","(","c","a","c","h","e","d",")","\n">>,
     <<"W","A","R","N","I","N","G",":"," ","D","A","T","A"," ","R","A","C","E","\n">>,
     <<"n","o"," ","c","o","v","e","r","a","g","e"," ","i","n","f","o","\n">>}

Outputs == MarkerOutputs \cup NestedOutputs \cup PanicOutputs \cup CoverOutputs \cup OtherOutputs

ActionNames ==
    {ActionRun, ActionPause, ActionCont, ActionPass,
     ActionBench, ActionFail, ActionOutput, ActionSkip}

Object(a, o, t, p, n, el) ==
    [kind |-> "object", Action |-> a, Output |-> o, Time |-> t,
     Package |-> p, Test |-> n, Elapsed |-> el]

\* A line that is no object: ill-formed text, the JSON null, a JSON array.
NonObject(k) == Object(Absent, Absent, Absent, Absent, Absent, Absent) @@ [kind |-> k]

\* Well-typed objects: every Output with every Action text and Test.
TextLines ==
    {Object(a, JStr(o), Absent, JStr(<<"p">>), n, Absent) :
        a \in {Absent} \cup {JStr(x) : x \in ActionNames \cup {<<"b","o","g","u","s">>}},
        o \in Outputs,
        n \in {Absent, JStr(TestFoo)}}

\* Objects whose keys hold every JSON type.
TypedLines ==
    {Object(a, o, t, p, n, el) :
        a  \in {Absent, JNull, JTrue, JNum(5), JStr(ActionOutput), JStr(ActionPass)},
        o  \in {Absent, JNum(5), JStr(NestedLine)},
        t  \in {Absent, JNull, JStr(TimeText), JStr(<<"y","e","s","t","e","r","d","a","y">>)},
        p  \in {Absent, JTrue, JStr(<<"p">>)},
        n  \in {Absent, JNum(5), JStr(TestFoo)},
        el \in {Absent, JNull, JStr(<<"0",".","5">>), JNum(584)}}

Lines ==
    TextLines \cup TypedLines
        \cup {NonObject("garbage"), NonObject("null"), NonObject("array")}

\* The lines of the two-caller specification.
StreamLines ==
    {NonObject("garbage"),
     Object(Absent, Absent, Absent, Absent, Absent, Absent),
     Object(JNum(5), JStr(NestedLine), Absent, JStr(<<"p">>), JStr(TestFoo), Absent),
     Object(JStr(ActionOutput), JStr(NestedLine), Absent, Absent, JStr(TestFoo), Absent),
     Object(JStr(ActionPass), Absent, JStr(TimeText), JStr(<<"p">>), Absent, JNum(584))}

-----------------------------------------------------------------------------
(* The callers *)

\* No result: before any predicate call, and after a call that returns none.
NoRet == [op |-> "none", ok |-> FALSE, f |-> 0]

InitWith(callers, lines) ==
    /\ data \in [callers -> lines]
    /\ e = [c \in callers |-> Nil]
    /\ err = [c \in callers |-> FALSE]
    /\ pc = [c \in callers |-> "start"]
    /\ calls = [c \in callers |-> 0]
    /\ ret = [c \in callers |-> NoRet]
    /\ before = [c \in callers |-> "nothing"]
    /\ updates = UpdatesTable

\* One caller, one line.
Init == InitWith({1}, Lines)

\* Two callers, each going through its own sequence of lines.
InitStream == InitWith({1, 2}, StreamLines)

\* Mutant of CallNewEvent: the line is decoded into the Event of the line
\* before instead of a fresh one.
CallNewEventReused(c) ==
    /\ pc[c] = "start"
    /\ LET r == Unmarshal(data[c], IF e[c] = Nil THEN ZeroEvent ELSE e[c])
       IN  /\ e' = [e EXCEPT ![c] = IF r.err THEN Nil ELSE r.v]
           /\ err' = [err EXCEPT ![c] = r.err]
           /\ pc' = [pc EXCEPT ![c] = IF r.err THEN "failed" ELSE "decoded"]
    /\ calls' = [calls EXCEPT ![c] = 0]
    /\ ret' = [ret EXCEPT ![c] = NoRet]
    /\ UNCHANGED <<data, before, updates>>

\* ev, err := NewEvent(data)
CallNewEvent(c) ==
    /\ pc[c] = "start"
    /\ LET r == NewEvent(data[c])
       IN  /\ e' = [e EXCEPT ![c] = r.ev]
           /\ err' = [err EXCEPT ![c] = r.err]
           /\ pc' = [pc EXCEPT ![c] = IF r.err THEN "failed" ELSE "decoded"]
    /\ calls' = [calls EXCEPT ![c] = 0]
    /\ ret' = [ret EXCEPT ![c] = NoRet]
    /\ UNCHANGED <<data, before, updates>>

\* ev.ProcessNestedTest()
CallProcessNestedTest(c) ==
    /\ pc[c] = "decoded"
    /\ calls[c] < MaxCalls
    /\ e' = [e EXCEPT ![c] = ProcessNestedTest(e[c])]
    /\ calls' = [calls EXCEPT ![c] = @ + 1]
    /\ ret' = [ret EXCEPT ![c] = NoRet]
    /\ UNCHANGED <<data, err, pc, before, updates>>

\* A predicate call: the receiver is read, the result goes to the caller.
Returns(c, op, ok, f) ==
    /\ pc[c] = "decoded"
    /\ ret' = [ret EXCEPT ![c] = [op |-> op, ok |-> ok, f |-> f]]
    /\ UNCHANGED <<data, e, err, pc, calls, before, updates>>

CallDiscard(c)      == Returns(c, "Discard", Discard(e[c]), 0)
CallLastLine(c)     == Returns(c, "LastLine", LastLine(e[c]), 0)
CallNoTestFiles(c)  == Returns(c, "NoTestFiles", NoTestFiles(e[c]), 0)
CallNoTestsToRun(c) == Returns(c, "NoTestsToRun", NoTestsToRun(e[c]), 0)
CallNoTestsWarn(c)  == Returns(c, "NoTestsWarn", NoTestsWarn(e[c]), 0)
CallIsCached(c)     == Returns(c, "IsCached", IsCached(e[c]), 0)
CallNestedTest(c)   == Returns(c, "NestedTest", NestedTest(e[c]), 0)
CallCover(c)        == Returns(c, "Cover", Cover(e[c]).ok, Cover(e[c]).f)
CallIsRace(c)       == Returns(c, "IsRace", IsRace(e[c]), 0)
CallIsPanic(c)      == Returns(c, "IsPanic", IsPanic(e[c]), 0)

\* The caller moves on to its next line, whatever became of the last one.
NextLine(c) ==
    /\ pc[c] \in {"decoded", "failed"}
    /\ \E d \in StreamLines : data' = [data EXCEPT ![c] = d]
    /\ pc' = [pc EXCEPT ![c] = "start"]
    /\ calls' = [calls EXCEPT ![c] = 0]
    /\ ret' = [ret EXCEPT ![c] = NoRet]
    /\ before' = [before EXCEPT ![c] = pc[c]]
    /\ UNCHANGED <<e, err, updates>>

Next ==
    \/ \E c \in DOMAIN pc : CallNewEvent(c)
    \/ \E c \in DOMAIN pc : CallProcessNestedTest(c)
    \/ \E c \in DOMAIN pc : CallDiscard(c)
    \/ \E c \in DOMAIN pc : CallLastLine(c)
    \/ \E c \in DOMAIN pc : CallNoTestFiles(c)
    \/ \E c \in DOMAIN pc : CallNoTestsToRun(c)
    \/ \E c \in DOMAIN pc : CallNoTestsWarn(c)
    \/ \E c \in DOMAIN pc : CallIsCached(c)
    \/ \E c \in DOMAIN pc : CallNestedTest(c)
    \/ \E c \in DOMAIN pc : CallCover(c)
    \/ \E c \in DOMAIN pc : CallIsRace(c)
    \/ \E c \in DOMAIN pc : CallIsPanic(c)

NextStream ==
    \/ Next
    \/ \E c \in DOMAIN pc : NextLine(c)

Spec == Init /\ [][Next]_vars

SpecStream == InitStream /\ [][NextStream]_vars

-----------------------------------------------------------------------------
(* Properties *)

\* Whether s begins with the text p.
StartsWith(s, p) == Len(s) >= Len(p) /\ \A i \in 1..Len(p) : s[i] = p[i]

\* Whether the text p occurs somewhere in s.
Occurs(s, p) ==
    \E k \in 0..(Len(s) - Len(p)) : \A i \in 1..Len(p) : s[k + i] = p[i]

\* Whether s ends with the text p.
EndsWith(s, p) ==
    Len(s) >= Len(p) /\ \A i \in 1..Len(p) : s[Len(s) - Len(p) + i] = p[i]

\* C1: Discard() is true exactly when Output starts with one of the three
\* 10-character markers (whatever Test and Action are) or Action is output
\* and Test is empty; so it is true of the package-level no-test-files event.
C1_Discard ==
    \A c \in DOMAIN pc :
        ret[c].op = "Discard" =>
            ret[c].ok =
                (\/ \E m \in {<<"=","=","="," ","R","U","N"," "," "," ">>, <<"=","=","="," ","P","A","U","S","E"," ">>, <<"=","=","="," ","C","O","N","T"," "," ">>} :
                        Len(m) = 10 /\ StartsWith(e[c].Output, m)
                 \/ e[c].Action = ActionOutput /\ e[c].Test = <<>>)

\* C1 witness: the no-test-files event of a package (Action output, no Test)
\* was asked and is discarded; NoTestFiles is true of it too.
C1_Witness ==
    \E c \in DOMAIN pc :
        /\ ret[c].op = "Discard" /\ ret[c].ok
        /\ e[c].Output = NoFilesLine /\ NoTestFiles(e[c])
        /\ e[c].Action = ActionOutput /\ e[c].Test = <<>>

\* C2: LastLine() is true exactly when Test is empty, Output is empty and
\* Action is pass or fail.
C2_LastLine ==
    \A c \in DOMAIN pc :
        ret[c].op = "LastLine" =>
            ret[c].ok = (/\ e[c].Test = <<>>
                         /\ e[c].Output = <<>>
                         /\ e[c].Action \in {ActionPass, ActionFail})

\* C2 witness: a package's closing pass event was asked and is the last line.
C2_Witness ==
    \E c \in DOMAIN pc :
        ret[c].op = "LastLine" /\ ret[c].ok /\ e[c].Action = ActionPass

\* Output with every tab turned into one space.
Spaced(s) == [i \in 1..Len(s) |-> IF s[i] = "\t" THEN " " ELSE s[i]]

\* The positions of the spaces of s, and the n-th of them.
SpacesOf(s) == {i \in 1..Len(s) : s[i] = " "}

NthSpace(s, n) ==
    CHOOSE i \in SpacesOf(s) : Cardinality({j \in SpacesOf(s) : j <= i}) = n

\* The token at index 2 of s split on single spaces (s holds two spaces or
\* more): what lies between the second space and the third, or the end.
TokenAt2(s) ==
    LET from == NthSpace(s, 2) + 1
        to   == IF Cardinality(SpacesOf(s)) >= 3 THEN NthSpace(s, 3) - 1 ELSE Len(s)
    IN  [i \in 1..(to - from + 1) |-> s[from + i - 1]]

\* C3: on an Event with a Test whose Output starts with PASS or FAIL,
\* ProcessNestedTest sets Action to pass or fail by the prefix and sets Test
\* to the token at index 2 of the tab-free Output split on spaces when there
\* are more than two tokens, leaving Test alone otherwise. The nested line
\* of TestFoo becomes pass, Suite.TestBar.
C3_ProcessNestedTest ==
    [][\A c \in DOMAIN pc :
          (/\ calls'[c] = calls[c] + 1
           /\ e[c].Test # <<>>
           /\ (StartsWith(e[c].Output, <<"P","A","S","S">>) \/ StartsWith(e[c].Output, <<"F","A","I","L">>)))
          => LET s == Spaced(e[c].Output)
             IN  /\ e'[c].Action = IF StartsWith(e[c].Output, <<"P","A","S","S">>)
                                   THEN ActionPass ELSE ActionFail
                 /\ e'[c].Test = IF Cardinality(SpacesOf(s)) + 1 > 2
                                 THEN TokenAt2(s) ELSE e[c].Test
                 /\ (e[c].Output = NestedLine /\ e[c].Test = TestFoo)
                        => e'[c].Action = ActionPass /\ e'[c].Test = SuiteTestBar
      ]_vars

\* C3 witness: the nested line of TestFoo, an output event, after one call.
C3_Witness ==
    \E c \in DOMAIN pc :
        /\ calls[c] = 1
        /\ data[c].Action = JStr(ActionOutput) /\ data[c].Test = JStr(TestFoo)
        /\ e[c].Output = NestedLine
        /\ e[c].Action = ActionPass /\ e[c].Test = SuiteTestBar

\* C4: a second ProcessNestedTest call in succession leaves every field of
\* the Event as the first call left it.
C4_Idempotent ==
    [][\A c \in DOMAIN pc :
          (calls[c] >= 1 /\ calls'[c] = calls[c] + 1) => e'[c] = e[c]
      ]_vars

\* C4 witness: two calls were made on an Event whose third Output token is
\* empty, so that the first call emptied its Test.
C4_Witness ==
    \E c \in DOMAIN pc :
        /\ calls[c] = 2
        /\ data[c].Test = JStr(TestFoo)
        /\ e[c].Test = <<>> /\ e[c].Action = ActionPass

\* C5: the Action of every Event decoded from a line that carries an Action
\* text is one of the eight names, also after ProcessNestedTest calls, and a
\* line whose Action text is none of them fails to decode.
C5_ActionClosed ==
    \A c \in DOMAIN pc :
        (/\ pc[c] # "start"
         /\ data[c].kind = "object"
         /\ data[c].Action.t = "string")
        => /\ pc[c] = "decoded" => e[c].Action \in ActionNames
           /\ data[c].Action.v \notin ActionNames => err[c] /\ e[c] = Nil

C7_IsPanic ==
    \A c \in DOMAIN pc :
        ret[c].op = "IsPanic" =>
            ret[c].ok =
                (\/ StartsWith(e[c].Output, <<"p","a","n","i","c",":"," ">>)
                 \/ /\ Occurs(e[c].Output, <<"r","u","n","t","i","m","e"," ","e","r","r","o","r",":">>)
                    /\ ~Occurs(e[c].Output, <<"a","s"," ","e","x","p","e","c","t","e","d">>))

\* C7 witness: an Output that starts with "panic: " and holds "as expected"
\* was asked and is a panic.
C7_Witness ==
    \E c \in DOMAIN pc :
        /\ ret[c].op = "IsPanic" /\ ret[c].ok
        /\ StartsWith(e[c].Output, <<"p","a","n","i","c",":"," ">>)
        /\ Occurs(e[c].Output, <<"a","s"," ","e","x","p","e","c","t","e","d">>)

\* Whether a numeral of the coverage form (k digits, 1 <= k <= 3, a dot, one
\* digit, a percent sign) stands in s from index i on.
NumeralAt(s, i, k) ==
    /\ k \in 1..3 /\ i >= 1 /\ i + k + 2 <= Len(s)
    /\ \A j \in i..(i + k - 1) : s[j] \in Digits
    /\ s[i + k] = "." /\ s[i + k + 1] \in Digits /\ s[i + k + 2] = "%"

\* The number such a numeral writes, in tenths.
NumeralTenths(s, i, k) ==
    10 * Atoi([j \in 1..k |-> s[i + j - 1]]) + DigitVal(s[i + k + 1])

\* C8: Cover() finds a percentage exactly when Output holds "coverage:",
\* ends with "of statements\n" and holds a numeral of the coverage form; the
\* percentage is the one the leftmost such numeral writes. Otherwise it
\* returns 0 and false.
C8_Cover ==
    \A c \in DOMAIN pc :
        ret[c].op = "Cover" =>
            LET s    == e[c].Output
                line == Occurs(s, <<"c","o","v","e","r","a","g","e",":">>) /\ EndsWith(s, <<"o","f"," ","s","t","a","t","e","m","e","n","t","s","\n">>)
                has  == \E i \in 1..Len(s), k \in 1..3 : NumeralAt(s, i, k)
            IN  /\ ret[c].ok = (line /\ has)
                /\ ret[c].ok =>
                      \E i \in 1..Len(s), k \in 1..3 :
                          /\ NumeralAt(s, i, k)
                          /\ \A i2 \in 1..(i - 1), k2 \in 1..3 : ~NumeralAt(s, i2, k2)
                          /\ ret[c].f = NumeralTenths(s, i, k)
                /\ ~ret[c].ok => ret[c].f = 0

\* C8 witness: a coverage line with two numerals was asked; the left one,
\* 1.2, is the percentage.
C8_Witness ==
    \E c \in DOMAIN pc :
        /\ ret[c].op = "Cover" /\ ret[c].ok /\ ret[c].f = 12
        /\ Occurs(e[c].Output, <<"3",".","4","%">>)

\* C9: on a decoded Event, Output, Package, Time and Elapsed never change;
\* Action and Test change only in a ProcessNestedTest call made when
\* NestedTest() held; a predicate call changes no field.
C9_Frame ==
    [][\A c \in DOMAIN pc :
          (pc[c] = "decoded" /\ pc'[c] = "decoded") =>
              /\ e'[c].Output = e[c].Output
              /\ e'[c].Package = e[c].Package
              /\ e'[c].Time = e[c].Time
              /\ e'[c].Elapsed = e[c].Elapsed
              /\ e'[c] # e[c] =>
                    /\ calls'[c] = calls[c] + 1
                    /\ e[c].Test # <<>>
                    /\ (StartsWith(e[c].Output, <<"P","A","S","S">>) \/ StartsWith(e[c].Output, <<"F","A","I","L">>))
              /\ ret'[c].op # "none" => e'[c] = e[c]
      ]_vars

\* C9 witness: a ProcessNestedTest call rewrote Action and Test of an Event
\* that has a Package, a Time and an Elapsed.
C9_Witness ==
    \E c \in DOMAIN pc :
        /\ calls[c] = 1
        /\ e[c].Action # NewEvent(data[c]).ev.Action
        /\ e[c].Test # NewEvent(data[c]).ev.Test
        /\ e[c].Package # <<>> /\ e[c].Time # ZeroTime /\ e[c].Elapsed # 0

\* C10: what a caller gets for a line (the error, the Event, a predicate's
\* result) is what any other caller gets for the same line at the same
\* point, whatever lines each handled before; the marker table stays as it
\* was set up.
C10_Stateless ==
    /\ updates = UpdatesTable
    /\ \A c1 \in DOMAIN pc, c2 \in DOMAIN pc :
          (/\ data[c1] = data[c2]
           /\ pc[c1] = pc[c2] /\ pc[c1] # "start"
           /\ calls[c1] = calls[c2]
           /\ ret[c1].op = ret[c2].op)
          => e[c1] = e[c2] /\ err[c1] = err[c2] /\ ret[c1] = ret[c2]

\* C10 witness: two callers got a predicate's result for the same line, one
\* on its first line, the other after a line that failed to decode.
C10_Witness ==
    \E c1 \in DOMAIN pc, c2 \in DOMAIN pc :
        /\ before[c1] = "nothing" /\ before[c2] = "failed"
        /\ data[c1] = data[c2]
        /\ pc[c1] = "decoded" /\ pc[c2] = "decoded"
        /\ calls[c1] = 1 /\ calls[c2] = 1
        /\ ret[c1].op = "Discard" /\ ret[c2].op = "Discard"

====
